---- MODULE Spec2Model ----
(***************************************************************************)
(* The kqueue event loop of aws-c-io (source/bsd/kqueue_event_loop.c):     *)
(* the lifecycle of the event-thread, the cross-thread hand-off (mutex,    *)
(* thread_signaled, tasks_to_schedule, signal pipe) and the main loop.     *)
(***************************************************************************)
EXTENDS Integers, Sequences, FiniteSets, TLC

\* Bounds of the model. Every specification bounds the tasks submitted, the calls of
\* run() and the calls of subscribe_to_io_events over one behaviour.
MaxTasks == 2
MaxRuns == 1
MaxSubs == 1
LifecycleTasks == 2
LifecycleRuns == 2
FairTasks == 1
FairRuns == 1
QueueTasks == 4
QueueRuns == 1
OrderTasks == 3
OrderSubs == 1
OrderRuns == 1
IoTasks == 2
IoSubs == 1
IoRuns == 1
MaxClock == 2      \* the readings of the clock are 0 .. MaxClock
TimedTasks == 2
TimedRuns == 1
WakeTasks == 2
WakeRuns == 1
FlagsTasks == 2
FlagsRuns == 1
FlagsSubs == 1
RerunTasks == 1
RerunRuns == 2
PipeCap == 2       \* writes the signal pipe holds before a write fails (pipe full)
MaxWakes == 2      \* returns of the kevent() wait counted after a stop has returned

\* Threads: the callers of the facade, and the event-thread of the loop.
App == {"A", "B"}
ET == "ET"

\* The aws_io_handles of the callers, and the two filters of a kqueue registration.
Handles == {"h1"}
EVFILT_READ == "EVFILT_READ"
EVFILT_WRITE == "EVFILT_WRITE"
Filters == {EVFILT_READ, EVFILT_WRITE}

\* enum aws_io_event_type
AWS_IO_EVENT_TYPE_READABLE == "READABLE"
AWS_IO_EVENT_TYPE_WRITABLE == "WRITABLE"
AWS_IO_EVENT_TYPE_CLOSED == "CLOSED"
AWS_IO_EVENT_TYPE_ERROR == "ERROR"

\* enum event_thread_state
EVENT_THREAD_STATE_READY_TO_RUN == "READY_TO_RUN"
EVENT_THREAD_STATE_RUNNING == "RUNNING"
EVENT_THREAD_STATE_STOPPING == "STOPPING"

\* enum aws_task_status, and the marks of the invocation record
AWS_TASK_STATUS_RUN_READY == "RUN_READY"
AWS_TASK_STATUS_CANCELED == "CANCELED"

\* The timeout of kevent() when the scheduler gives no deadline. Time is counted in
\* seconds.
DEFAULT_TIMEOUT_SEC == 100

AWS_OP_SUCCESS == "AWS_OP_SUCCESS"
AWS_OP_ERR == "AWS_OP_ERR"

VARIABLES
    cross_thread_data,  \* [thread_signaled, tasks_to_schedule, state], guarded by the mutex
    thread_data,        \* [connected_handle_count, state], private to the event-thread
    scheduler,          \* thread_data.scheduler: [asap_list, timed_list, running_list]
    pipe,               \* number of unread writes in cross_thread_signal_pipe
    kq,                 \* kernel registrations of kq_fd: (handle, filter) -> udata (0: none)
    etpc,               \* position of the event-thread ("none": no thread exists)
    loop,               \* locals of s_event_thread_main: [should_process,
                        \* io_handle_events, now_ns, timeout, kevents]
    pc,                 \* position of each caller thread
    result,             \* what the step just taken returned to its caller, if it returned
    tasks,              \* every aws_task submitted so far, and where it was submitted from
    invoked,            \* per task: the invocations of its callback, [status, by], in order
    handle_data,        \* every struct handle_data allocated so far, with what its
                        \* subscribe task met: the filters refused, the ERROR callbacks
    additional_data,    \* handle->additional_data of each aws_io_handle (0: NULL)
    iter,               \* per handle_data: what the current loop iteration saw and delivered
    stopped,            \* the stop that ends this run: who called it, whether it has
                        \* returned, and the returns of kevent() since it returned
    runs,               \* calls of run() made so far
    joined,             \* event-threads joined so far after they left their main loop
    limit,              \* how many tasks, runs and subscriptions the callers make,
                        \* and what is kept of a call: its result, its kevents
    clock,              \* the last reading of event_loop->clock
    signal_written      \* write() was called on the pipe since thread_signaled was
                        \* last cleared

vars == <<cross_thread_data, thread_data, scheduler, pipe, kq, etpc, loop, pc, result,
          tasks, invoked, handle_data, additional_data, iter, stopped, runs, joined,
          limit, clock, signal_written>>

----------------------------------------------------------------------------
\* aws_event_loop_new_default: the state after construction.
Constructed ==
    /\ cross_thread_data = [thread_signaled |-> FALSE,
                            tasks_to_schedule |-> <<>>,
                            state |-> EVENT_THREAD_STATE_READY_TO_RUN]
    /\ thread_data = [connected_handle_count |-> 0,
                      state |-> EVENT_THREAD_STATE_READY_TO_RUN]
    /\ scheduler = [asap_list |-> <<>>, timed_list |-> <<>>, running_list |-> <<>>]
    /\ pipe = 0
    /\ kq = [k \in Handles \X Filters |-> 0]
    /\ etpc = "none"
    /\ loop = [should_process |-> FALSE, io_handle_events |-> <<>>, now_ns |-> 0,
               timeout |-> DEFAULT_TIMEOUT_SEC, kevents |-> <<>>]
    /\ pc = [a \in App |-> "idle"]
    /\ result = [op |-> "none", val |-> "none"]
    /\ tasks = <<>>
    /\ invoked = <<>>
    /\ handle_data = <<>>
    /\ additional_data = [h \in Handles |-> 0]
    /\ iter = <<>>
    /\ stopped = [by |-> "none", returned |-> "no", wakes |-> 0, signal_wakes |-> 0]
    /\ runs = 0
    /\ joined = 0
    /\ clock = 0
    /\ signal_written = FALSE

Init ==
    /\ Constructed
    /\ limit = [tasks |-> MaxTasks, runs |-> MaxRuns, subs |-> MaxSubs, results |-> TRUE,
                callers |-> App, clock |-> 0,
                kevents |-> FALSE]

----------------------------------------------------------------------------
\* Helpers.
Min(a, b) == IF a < b THEN a ELSE b

DestroyPcs == {"d_stop_write", "d_join", "d_sched", "d_sched_fn", "d_inbox", "d_inbox_fn",
               "d_failed", "destroyed"}

\* The caller is inside a callback that the loop invoked on its thread.
InCallback(c) ==
    IF c = ET THEN etpc \in {"in_task_fn", "in_on_event"}
    ELSE pc[c] \in {"d_sched_fn", "d_inbox_fn"}

\* The caller is the event-thread inside a readiness callback.
InOnEvent(c) == c = ET /\ etpc = "in_on_event"

\* The caller is a thread of the application between two calls; nobody calls into a
\* loop that is being destroyed.
AtTopLevel(c) ==
    /\ c \in limit.callers
    /\ pc[c] = "idle"
    /\ \A b \in App : pc[b] \notin DestroyPcs

MayCall(c) == InCallback(c) \/ AtTopLevel(c)

\* result holds what the step just taken returned to a thread of the application, when
\* that step is the return of a call of run, stop, wait_for_stop_completion, subscribe
\* or unsubscribe.
NoResult == [op |-> "none", val |-> "none"]

Return(c, op, v) ==
    result' = IF c \in App /\ limit.results THEN [op |-> op, val |-> v] ELSE NoResult

----------------------------------------------------------------------------
\* aws_linked_list (aws-c-common), as used on tasks_to_schedule.
aws_linked_list_push_back(list, node) == Append(list, node)

\* aws_task_scheduler (aws-c-common): immediate tasks are kept in arrival order; run_all
\* takes the tasks held when it starts and runs them in that order, tasks scheduled by a
\* callback wait for the next run_all.
aws_task_scheduler_schedule_now(sch, task) ==
    [sch EXCEPT !.asap_list = Append(@, task)]

\* Timed tasks are kept in the order of their timestamps.
RECURSIVE InsertByTimestamp(_, _, _)
InsertByTimestamp(list, task, timestamp) ==
    IF list = <<>> THEN <<task>>
    ELSE IF tasks[Head(list)].run_at <= timestamp
    THEN <<Head(list)>> \o InsertByTimestamp(Tail(list), task, timestamp)
    ELSE <<task>> \o list

aws_task_scheduler_schedule_future(sch, task, timestamp) ==
    [sch EXCEPT !.timed_list = InsertByTimestamp(@, task, timestamp)]

aws_task_scheduler_has_tasks(sch) ==
    sch.asap_list # <<>> \/ sch.timed_list # <<>> \/ sch.running_list # <<>>

\* The next_run_time that aws_task_scheduler_has_tasks reports: 0 with an immediate
\* task, else the timestamp of the first timed task.
NextRunTime(sch) ==
    IF sch.asap_list # <<>> THEN 0 ELSE tasks[Head(sch.timed_list)].run_at

\* run_all moves the asap list, and then the timed tasks whose timestamp is not after
\* current_time, behind what is left of the running list.
aws_task_scheduler_run_all_begin(sch, current_time) ==
    LET Due(t) == tasks[t].run_at <= current_time
        Later(t) == ~Due(t)
    IN [asap_list |-> <<>>,
        timed_list |-> SelectSeq(sch.timed_list, Later),
        running_list |-> sch.running_list \o sch.asap_list
                             \o SelectSeq(sch.timed_list, Due)]

\* clean_up runs every task that is left, with CANCELED.
aws_task_scheduler_clean_up_begin(sch) ==
    [asap_list |-> <<>>,
     timed_list |-> <<>>,
     running_list |-> sch.running_list \o sch.asap_list \o sch.timed_list]

\* s_is_event_thread: the calling thread is the thread of impl->thread.
\* (Variant: no thread is taken for the event-thread.)
s_is_event_thread_never(c) == FALSE

s_is_event_thread(c) == c = ET

\* signal_cross_thread_data_changed: one write to the pipe; a write to a full pipe fails
\* and is ignored.
\* (Variant: the write is never made.)
signal_cross_thread_data_lost(p) == p

signal_cross_thread_data_changed(p) == Min(p + 1, PipeCap)

\* What follows the critical section of a caller that decided to signal or not: a
\* thread of the application writes the pipe in a later step; inside a callback (on
\* the event-thread, or on the destroying thread when every other thread is quiet) the
\* write follows at once.
\* (Variant: nobody writes the pipe.)
AfterCriticalSectionSilent(c, signal, write_pc) ==
    UNCHANGED <<pc, pipe, signal_written>>

AfterCriticalSection(c, signal, write_pc) ==
    IF c \in App /\ pc[c] = "idle"
    THEN /\ pc' = [pc EXCEPT ![c] = IF signal THEN write_pc ELSE "idle"]
         /\ pipe' = pipe
         /\ signal_written' = signal_written
    ELSE /\ pipe' = IF signal THEN signal_cross_thread_data_changed(pipe) ELSE pipe
         /\ signal_written' = (signal_written \/ signal)
         /\ pc' = pc

----------------------------------------------------------------------------
\* s_run: both asserts hold, the state is written, the thread is launched; a failed
\* launch restores READY_TO_RUN.
\* (Variants: the state is not written; a failed launch restores nothing.)
s_run_state_skip(launched) == cross_thread_data.state

s_run_no_restore(launched) == EVENT_THREAD_STATE_RUNNING

s_run_state(launched) ==
    IF launched THEN EVENT_THREAD_STATE_RUNNING ELSE EVENT_THREAD_STATE_READY_TO_RUN

s_run(a) ==
    /\ AtTopLevel(a)
    /\ runs < limit.runs
    /\ cross_thread_data.state = EVENT_THREAD_STATE_READY_TO_RUN
    /\ thread_data.state = EVENT_THREAD_STATE_READY_TO_RUN
    /\ \E launched \in BOOLEAN :
        /\ cross_thread_data' = [cross_thread_data EXCEPT !.state = s_run_state(launched)]
        /\ etpc' = IF launched THEN "start" ELSE etpc
        /\ Return(a, "run", IF launched THEN AWS_OP_SUCCESS ELSE AWS_OP_ERR)
    /\ runs' = runs + 1
    /\ UNCHANGED <<thread_data, scheduler, pipe, kq, loop, pc, tasks, invoked,
                   handle_data, additional_data, iter, stopped, joined, limit, clock, signal_written>>

\* s_stop, the critical section: only a RUNNING loop is changed.
\* (Variant: the state is not tested.)
s_stop_always(cd) ==
    [cd EXCEPT !.state = EVENT_THREAD_STATE_STOPPING, !.thread_signaled = TRUE]

s_stop_critical_section(cd) ==
    IF cd.state = EVENT_THREAD_STATE_RUNNING
    THEN [cd EXCEPT !.state = EVENT_THREAD_STATE_STOPPING, !.thread_signaled = TRUE]
    ELSE cd

\* (Variant: s_stop sets the flag and leaves the pipe alone.)
s_stop_signal_never(cd) == FALSE

s_stop_signal_thread(cd) ==
    cd.state = EVENT_THREAD_STATE_RUNNING /\ ~cd.thread_signaled

s_stop(c) ==
    /\ MayCall(c)
    /\ LET signal == s_stop_signal_thread(cross_thread_data)
           effective == cross_thread_data.state = EVENT_THREAD_STATE_RUNNING
           later == signal /\ c \in App /\ pc[c] = "idle"
       IN /\ cross_thread_data' = s_stop_critical_section(cross_thread_data)
          /\ AfterCriticalSection(c, signal, "stop_write")
          /\ IF later THEN result' = NoResult ELSE Return(c, "stop", AWS_OP_SUCCESS)
          /\ stopped' = IF ~effective THEN stopped
                        ELSE [by |-> c, wakes |-> 0, signal_wakes |-> 0,
                              returned |-> IF later THEN "pending"
                                           ELSE IF signal THEN "signalled"
                                           ELSE "coalesced"]
    /\ UNCHANGED <<thread_data, scheduler, kq, etpc, loop, tasks, invoked,
                   handle_data, additional_data, iter, runs, joined, limit, clock>>

\* The write to the pipe that ends s_stop and s_schedule_task_common.
SignalWrite(a) ==
    /\ pc[a] \in {"stop_write", "sched_write"}
    /\ pipe' = signal_cross_thread_data_changed(pipe)
    /\ pc' = [pc EXCEPT ![a] = "idle"]
    /\ IF pc[a] = "stop_write"
       THEN /\ Return(a, "stop", AWS_OP_SUCCESS)
            /\ stopped' = IF stopped.by = a /\ stopped.returned = "pending"
                          THEN [stopped EXCEPT !.returned = "signalled"]
                          ELSE stopped
       ELSE /\ result' = NoResult
            /\ stopped' = stopped
    /\ UNCHANGED <<cross_thread_data, thread_data, scheduler, kq, etpc, loop, tasks,
                   invoked, handle_data, additional_data, iter, runs, joined, limit, clock>>
    /\ signal_written' = TRUE

NoStop == [by |-> "none", returned |-> "no", wakes |-> 0, signal_wakes |-> 0]

\* s_wait_for_stop_completion: the debug assert, the join (which returns when no
\* thread was launched or the thread has left s_event_thread_main), both states reset.
\* A join that fails returns at once and nothing is reset.
\* (Variant: the thread-private state is not reset.)
s_wait_reset_inbox_only(td) == td

s_wait_reset_thread_state(td) == [td EXCEPT !.state = EVENT_THREAD_STATE_READY_TO_RUN]

JoinAndReset ==
    /\ cross_thread_data.state # EVENT_THREAD_STATE_RUNNING
    /\ etpc \in {"none", "exited"}
    /\ etpc' = "none"
    /\ cross_thread_data' =
           [cross_thread_data EXCEPT !.state = EVENT_THREAD_STATE_READY_TO_RUN]
    /\ thread_data' = s_wait_reset_thread_state(thread_data)
    /\ stopped' = NoStop
    /\ joined' = IF etpc = "exited" THEN joined + 1 ELSE joined

\* (Variant: the inbox state is reset although the join failed.)
JoinFailsAndResets ==
    /\ cross_thread_data.state # EVENT_THREAD_STATE_RUNNING
    /\ cross_thread_data' =
           [cross_thread_data EXCEPT !.state = EVENT_THREAD_STATE_READY_TO_RUN]
    /\ UNCHANGED <<thread_data, etpc, stopped, joined>>

JoinFails ==
    /\ cross_thread_data.state # EVENT_THREAD_STATE_RUNNING
    /\ UNCHANGED <<cross_thread_data, thread_data, etpc, stopped, joined>>

s_wait_for_stop_completion(a) ==
    /\ AtTopLevel(a)
    /\ \/ /\ JoinAndReset
          /\ Return(a, "wait_for_stop_completion", AWS_OP_SUCCESS)
       \/ /\ JoinFails
          /\ Return(a, "wait_for_stop_completion", AWS_OP_ERR)
    /\ UNCHANGED <<scheduler, pipe, kq, loop, pc, tasks, invoked, handle_data,
                   additional_data, iter, runs, limit, clock, signal_written>>

----------------------------------------------------------------------------
\* s_schedule_task_common: on the event-thread the task goes to the scheduler, from any
\* other thread to tasks_to_schedule under the mutex. run_at_nanos = 0 denotes "now".
Submit(c, task, write_pc) ==
    /\ Len(tasks) < limit.tasks
    /\ tasks' = Append(tasks, task)
    /\ invoked' = Append(invoked, <<>>)
    /\ LET t == Len(tasks) + 1 IN
       IF s_is_event_thread(c)
       THEN /\ scheduler' = IF task.run_at = 0
                             THEN aws_task_scheduler_schedule_now(scheduler, t)
                             ELSE aws_task_scheduler_schedule_future(scheduler, t,
                                                                     task.run_at)
            /\ UNCHANGED <<cross_thread_data, pipe, pc, signal_written>>
       ELSE /\ cross_thread_data' =
                   [cross_thread_data EXCEPT
                       !.tasks_to_schedule = aws_linked_list_push_back(@, t),
                       !.thread_signaled = TRUE]
            /\ AfterCriticalSection(c, ~cross_thread_data.thread_signaled, write_pc)
            /\ scheduler' = scheduler

s_schedule_task_now(c) ==
    /\ MayCall(c)
    /\ Submit(c, [owner |-> c, kind |-> "task", rec |-> 0, in_fn |-> InCallback(c), on_event |-> InOnEvent(c), run_at |-> 0], "sched_write")
    /\ UNCHANGED <<thread_data, kq, etpc, loop, handle_data, additional_data,
                   iter, stopped, runs, joined, limit, clock>>
    /\ result' = NoResult

\* s_schedule_task_future: run_at_nanos is a time of the clock, soon or far away.
FarDeadline == DEFAULT_TIMEOUT_SEC + MaxClock + 1

Deadlines == (0 .. MaxClock) \cup {FarDeadline}

s_schedule_task_future(c) ==
    /\ MayCall(c)
    /\ limit.clock > 0
    /\ \E run_at_nanos \in Deadlines :
          Submit(c, [owner |-> c, kind |-> "task", rec |-> 0, in_fn |-> InCallback(c), on_event |-> InOnEvent(c),
                     run_at |-> run_at_nanos], "sched_write")
    /\ UNCHANGED <<thread_data, kq, etpc, loop, handle_data, additional_data,
                   iter, stopped, runs, joined, limit, clock>>
    /\ result' = NoResult

----------------------------------------------------------------------------
\* s_subscribe_to_io_events: the handle_data is allocated and attached to the handle,
\* and the subscribe task is scheduled. A failed allocation changes nothing.
EventMasks == {{AWS_IO_EVENT_TYPE_READABLE}, {AWS_IO_EVENT_TYPE_WRITABLE},
               {AWS_IO_EVENT_TYPE_READABLE, AWS_IO_EVENT_TYPE_WRITABLE}}

s_subscribe_to_io_events(c, h, events) ==
    /\ MayCall(c)
    /\ additional_data[h] = 0
    /\ Len(handle_data) < limit.subs
    /\ \/ /\ Return(c, "subscribe", AWS_OP_ERR)
          /\ UNCHANGED <<cross_thread_data, scheduler, pipe, pc, tasks, invoked,
                         handle_data, additional_data, iter, signal_written>>
       \/ /\ LET r == Len(handle_data) + 1 IN
             /\ Submit(c, [owner |-> c, kind |-> "sub", rec |-> r, in_fn |-> InCallback(c), on_event |-> InOnEvent(c), run_at |-> 0], "sub_write")
             /\ handle_data' = Append(handle_data,
                    [owner |-> h,
                     events_subscribed |-> events,
                     events_this_loop |-> {},
                     kevent_added_successfully |-> FALSE,
                     failed_filters |-> {},
                     error_callbacks |-> 0,
                     alive |-> TRUE,
                     used_after_free |-> FALSE,
                     subscriber |-> c,
                     returned |-> ~(c \in App /\ pc[c] = "idle"
                                    /\ ~cross_thread_data.thread_signaled)])
             /\ additional_data' = [additional_data EXCEPT ![h] = r]
             /\ iter' = Append(iter, [expected |-> {}, delivered |-> <<>>])
          /\ Return(c, "subscribe", AWS_OP_SUCCESS)
    /\ UNCHANGED <<thread_data, kq, etpc, loop, stopped, runs, joined, limit, clock>>

\* The write to the pipe that ends the s_schedule_task_now of s_subscribe_to_io_events.
SubscribeWrite(a) ==
    /\ pc[a] = "sub_write"
    /\ pipe' = signal_cross_thread_data_changed(pipe)
    /\ pc' = [pc EXCEPT ![a] = "idle"]
    /\ handle_data' = [r \in DOMAIN handle_data |->
                          IF handle_data[r].subscriber = a
                          THEN [handle_data[r] EXCEPT !.returned = TRUE]
                          ELSE handle_data[r]]
    /\ UNCHANGED <<cross_thread_data, thread_data, scheduler, kq, etpc, loop, tasks,
                   invoked, additional_data, iter, stopped, runs, joined, limit, clock>>
    /\ signal_written' = TRUE
    /\ result' = NoResult

\* s_unsubscribe_from_io_events, called on a handle whose subscribe call has returned:
\* the handle_data is detached and its unsubscribe task is scheduled.
s_unsubscribe_from_io_events(c, h) ==
    /\ MayCall(c)
    /\ additional_data[h] # 0
    /\ handle_data[additional_data[h]].returned
    /\ Submit(c, [owner |-> c, kind |-> "unsub", rec |-> additional_data[h],
                  in_fn |-> InCallback(c), on_event |-> InOnEvent(c), run_at |-> 0], "sched_write")
    /\ additional_data' = [additional_data EXCEPT ![h] = 0]
    /\ Return(c, "unsubscribe", AWS_OP_SUCCESS)
    /\ UNCHANGED <<thread_data, kq, etpc, loop, handle_data, iter, stopped, runs, joined,
          limit, clock>>

----------------------------------------------------------------------------
\* The filters a subscription asks for.
FiltersOf(events) ==
    {f \in Filters :
        \/ f = EVFILT_READ /\ AWS_IO_EVENT_TYPE_READABLE \in events
        \/ f = EVFILT_WRITE /\ AWS_IO_EVENT_TYPE_WRITABLE \in events}

\* What a read of events_subscribed gives: the field, or anything once the memory has
\* been released.
ReadEventsSubscribed(r) ==
    IF handle_data[r].alive THEN {handle_data[r].events_subscribed}
    ELSE SUBSET {AWS_IO_EVENT_TYPE_READABLE, AWS_IO_EVENT_TYPE_WRITABLE}

\* s_subscribe_task. `failed` is the set of filters whose EV_ADD the kernel refuses,
\* `syscall_ok` is FALSE when kevent() itself returns -1 and changes nothing.
\* `body` tells whether a callback of the subscriber was entered.
\* An access to the handle_data r: once its memory has been released, the access is a
\* use after free.
Access(hd, r) == [hd EXCEPT ![r].used_after_free = @ \/ ~hd[r].alive]

\* (Variant: the registrations that succeeded are left in the kernel.)
RegisterKeepingAdded(r, h, filters, syscall_ok, failed) ==
    [k \in DOMAIN kq |->
        IF syscall_ok /\ k[1] = h /\ k[2] \in filters \ failed THEN r ELSE kq[k]]

\* The registrations after the EV_ADD | EV_RECEIPT of `filters` and, when one of them
\* was refused, the EV_DELETE of the ones that were added.
RegisterOrRollBack(r, h, filters, syscall_ok, failed) ==
    [k \in DOMAIN kq |->
        IF syscall_ok /\ k[1] = h /\ k[2] \in filters
        THEN (IF failed = {} THEN r ELSE IF k[2] \in failed THEN kq[k] ELSE 0)
        ELSE kq[k]]

s_subscribe_task(r, status, body) ==
    /\ thread_data' = [thread_data EXCEPT !.connected_handle_count = @ + 1]
    /\ IF status = AWS_TASK_STATUS_CANCELED
       THEN /\ body = FALSE
            /\ handle_data' = Access(handle_data, r)
            /\ kq' = kq
       ELSE \E events \in ReadEventsSubscribed(r), syscall_ok \in BOOLEAN :
            \E failed \in SUBSET FiltersOf(events) :
               LET h == handle_data[r].owner
                   all_ok == syscall_ok /\ failed = {}
               IN /\ syscall_ok \/ failed = FiltersOf(events)
                  /\ kq' = RegisterOrRollBack(r, h, FiltersOf(events), syscall_ok, failed)
                  /\ handle_data' = [Access(handle_data, r) EXCEPT
                         ![r].kevent_added_successfully = all_ok,
                         ![r].failed_filters = failed,
                         ![r].error_callbacks = @ + (IF all_ok THEN 0 ELSE 1)]
                  /\ body = ~all_ok

\* s_unsubscribe_task.
s_unsubscribe_task(r, status) ==
    /\ thread_data' = [thread_data EXCEPT !.connected_handle_count = @ - 1]
    /\ IF status = AWS_TASK_STATUS_RUN_READY /\ handle_data[r].kevent_added_successfully
       THEN \E events \in ReadEventsSubscribed(r) :
               kq' = [k \in DOMAIN kq |->
                         IF k[1] = handle_data[r].owner /\ k[2] \in FiltersOf(events)
                         THEN 0 ELSE kq[k]]
       ELSE kq' = kq
    /\ handle_data' = [Access(handle_data, r) EXCEPT ![r].alive = FALSE]

\* task->fn(task, task->arg, status), on thread `by`.
TaskFn(t, status, by, body) ==
    /\ invoked' = [invoked EXCEPT ![t] = Append(@, [status |-> status, by |-> by])]
    /\ CASE tasks[t].kind = "task" ->
                /\ body = TRUE
                /\ UNCHANGED <<thread_data, kq, handle_data>>
         [] tasks[t].kind = "sub" -> s_subscribe_task(tasks[t].rec, status, body)
         [] tasks[t].kind = "unsub" ->
                /\ body = FALSE
                /\ s_unsubscribe_task(tasks[t].rec, status)

----------------------------------------------------------------------------
\* s_aws_event_flags_from_kevent, on a kevent [udata, filter, error, data, eof].
\* (Variant: the payload is not looked at.)
s_aws_event_flags_ignoring_data(kevent) ==
    IF kevent.error THEN {AWS_IO_EVENT_TYPE_ERROR}
    ELSE (IF kevent.filter = EVFILT_READ THEN {AWS_IO_EVENT_TYPE_READABLE}
          ELSE {AWS_IO_EVENT_TYPE_WRITABLE})
         \cup (IF kevent.eof THEN {AWS_IO_EVENT_TYPE_CLOSED} ELSE {})

s_aws_event_flags_from_kevent(kevent) ==
    IF kevent.error THEN {AWS_IO_EVENT_TYPE_ERROR}
    ELSE IF kevent.filter = EVFILT_READ
    THEN (IF kevent.data # 0 THEN {AWS_IO_EVENT_TYPE_READABLE} ELSE {})
         \cup (IF kevent.eof THEN {AWS_IO_EVENT_TYPE_CLOSED} ELSE {})
    ELSE IF kevent.filter = EVFILT_WRITE
    THEN (IF kevent.data # 0 THEN {AWS_IO_EVENT_TYPE_WRITABLE} ELSE {})
         \cup (IF kevent.eof THEN {AWS_IO_EVENT_TYPE_CLOSED} ELSE {})
    ELSE {}

\* The kevents the kernel may return for the registrations it holds: for every
\* registered (handle, filter) at most one, with any flags and payload.
KeyOrder ==
    CHOOSE s \in [1..Cardinality(Handles \X Filters) -> Handles \X Filters] :
        \A i, j \in DOMAIN s : i # j => s[i] # s[j]

KernelEvent == [error : BOOLEAN, data : {0, 1}, eof : BOOLEAN]

NoEvent == [absent |-> TRUE]

Batches ==
    {b \in [Handles \X Filters -> KernelEvent \cup {NoEvent}] :
        \A k \in DOMAIN b : kq[k] = 0 => b[k] = NoEvent}

KeventOf(b, k) ==
    [udata |-> kq[k], filter |-> k[2], error |-> b[k].error, data |-> b[k].data,
     eof |-> b[k].eof]

RECURSIVE KeventList(_, _)
KeventList(b, i) ==
    IF i > Len(KeyOrder) THEN <<>>
    ELSE (IF b[KeyOrder[i]] = NoEvent THEN <<>> ELSE <<KeventOf(b, KeyOrder[i])>>)
         \o KeventList(b, i + 1)

\* The first for-loop of an iteration of s_event_thread_main, over the kevents of
\* ordinary handles: the flags of the events of one handle_data are combined, and the
\* handle_data enters io_handle_events once.
\* (Variant: events_this_loop is not tested.)
CombineAlwaysAdd(hd, buf, r) == Append(buf, r)

CombineAdd(hd, buf, r) == IF hd[r].events_this_loop = {} THEN Append(buf, r) ELSE buf

RECURSIVE ScanKevents(_, _, _)
ScanKevents(kevents, hd, buf) ==
    IF kevents = <<>> THEN [handle_data |-> hd, io_handle_events |-> buf]
    ELSE LET kevent == Head(kevents)
             event_flags == s_aws_event_flags_from_kevent(kevent)
             r == kevent.udata
         IN IF event_flags = {} THEN ScanKevents(Tail(kevents), hd, buf)
            ELSE ScanKevents(Tail(kevents),
                             [Access(hd, r) EXCEPT
                                 ![r].events_this_loop = @ \cup event_flags],
                             CombineAdd(hd, buf, r))

\* The union of the translated flags of the kevents of a batch that belong to r.
BatchFlags(b, r) ==
    UNION {s_aws_event_flags_from_kevent(KeventOf(b, k)) :
              k \in {x \in DOMAIN b : b[x] # NoEvent /\ kq[x] = r}}

----------------------------------------------------------------------------
\* s_event_thread_main, first statement: the thread-private state becomes RUNNING.
ThreadStart ==
    /\ etpc = "start"
    /\ thread_data.state = EVENT_THREAD_STATE_READY_TO_RUN
    /\ thread_data' = [thread_data EXCEPT !.state = EVENT_THREAD_STATE_RUNNING]
    /\ etpc' = "wait"
    /\ loop' = [should_process |-> FALSE, io_handle_events |-> <<>>, now_ns |-> 0,
                timeout |-> DEFAULT_TIMEOUT_SEC, kevents |-> <<>>]
    /\ UNCHANGED <<cross_thread_data, scheduler, pipe, kq, pc, tasks, invoked,
                   handle_data, additional_data, iter, stopped, runs, joined, limit,
                   clock, signal_written>>
    /\ result' = NoResult

CountWake(signalled) ==
    IF stopped.returned \in {"signalled", "coalesced"}
    THEN [stopped EXCEPT !.wakes = Min(@ + 1, MaxWakes),
                         !.signal_wakes = Min(@ + (IF signalled THEN 1 ELSE 0), MaxWakes)]
    ELSE stopped

\* kevent() returns -1: no event is looked at, cross_thread_data is processed anyway.
WaitFails ==
    /\ etpc = "wait"
    /\ loop' = [loop EXCEPT !.should_process = TRUE, !.io_handle_events = <<>>]
    /\ iter' = [r \in DOMAIN iter |-> [expected |-> {}, delivered |-> <<>>]]
    /\ stopped' = CountWake(TRUE)
    /\ etpc' = "drain"
    /\ UNCHANGED <<cross_thread_data, thread_data, scheduler, pipe, kq, pc, tasks, invoked,
                   handle_data, additional_data, runs, joined, limit, clock, signal_written>>
    /\ result' = NoResult

\* kevent() returns a batch (empty on a timeout). The read end of the signal pipe is
\* in the batch when the pipe holds data, and is then read until it is empty.
Wait ==
    /\ etpc = "wait"
    /\ \E b \in Batches :
          LET scan == ScanKevents(KeventList(b, 1), handle_data, <<>>) IN
          /\ handle_data' = scan.handle_data
          /\ loop' = [loop EXCEPT !.should_process = pipe > 0,
                                   !.io_handle_events = scan.io_handle_events,
                                   !.kevents = IF limit.kevents THEN KeventList(b, 1)
                                               ELSE <<>>]
          /\ iter' = [r \in DOMAIN iter |->
                         [expected |-> BatchFlags(b, r), delivered |-> <<>>]]
          /\ etpc' = IF scan.io_handle_events = <<>> THEN "drain" ELSE "io_cb"
    /\ pipe' = 0
    /\ stopped' = CountWake(pipe > 0)
    /\ UNCHANGED <<cross_thread_data, thread_data, scheduler, kq, pc, tasks,
                   invoked, additional_data, runs, joined, limit, clock, signal_written>>
    /\ result' = NoResult

\* The second for-loop: on_event is called with the flags collected for the handle ...
InvokeOnEvent ==
    /\ etpc = "io_cb"
    /\ LET r == Head(loop.io_handle_events) IN
       iter' = [iter EXCEPT ![r].delivered = Append(@, handle_data[r].events_this_loop)]
    /\ etpc' = "in_on_event"
    /\ UNCHANGED <<cross_thread_data, thread_data, scheduler, pipe, kq, loop, pc, tasks,
                   invoked, handle_data, additional_data, stopped, runs, joined, limit, clock, signal_written>>
    /\ result' = NoResult

\* ... and when it returns, events_this_loop is reset.
ResetEventsThisLoop(hd, r) == [hd EXCEPT ![r].events_this_loop = {}]

OnEventReturn ==
    /\ etpc = "in_on_event"
    /\ handle_data' = ResetEventsThisLoop(Access(handle_data, Head(loop.io_handle_events)),
                                          Head(loop.io_handle_events))
    /\ loop' = [loop EXCEPT !.io_handle_events = Tail(@)]
    /\ etpc' = IF Tail(loop.io_handle_events) = <<>> THEN "drain" ELSE "io_cb"
    /\ UNCHANGED <<cross_thread_data, thread_data, scheduler, pipe, kq, pc, tasks, invoked,
                   additional_data, iter, stopped, runs, joined, limit, clock, signal_written>>
    /\ result' = NoResult

\* s_process_tasks_to_schedule: the tasks are popped from the front and scheduled.
\* (Variant: the tasks are popped from the back.)
RECURSIVE s_process_tasks_reversed(_, _)
s_process_tasks_reversed(sch, tasks_to_schedule) ==
    IF tasks_to_schedule = <<>> THEN sch
    ELSE s_process_tasks_reversed(
             aws_task_scheduler_schedule_now(sch,
                 tasks_to_schedule[Len(tasks_to_schedule)]),
             SubSeq(tasks_to_schedule, 1, Len(tasks_to_schedule) - 1))

\* (Variant: the timestamp is not looked at.)
RECURSIVE s_process_tasks_all_now(_, _)
s_process_tasks_all_now(sch, tasks_to_schedule) ==
    IF tasks_to_schedule = <<>> THEN sch
    ELSE s_process_tasks_all_now(
             aws_task_scheduler_schedule_now(sch, Head(tasks_to_schedule)),
             Tail(tasks_to_schedule))

RECURSIVE s_process_tasks_to_schedule(_, _)
s_process_tasks_to_schedule(sch, tasks_to_schedule) ==
    IF tasks_to_schedule = <<>> THEN sch
    ELSE LET task == Head(tasks_to_schedule) IN
         s_process_tasks_to_schedule(
             IF tasks[task].run_at = 0
             THEN aws_task_scheduler_schedule_now(sch, task)
             ELSE aws_task_scheduler_schedule_future(sch, task, tasks[task].run_at),
             Tail(tasks_to_schedule))

\* s_process_cross_thread_data, the critical section: what it leaves in
\* cross_thread_data and the state it leaves in thread_data.
\* (Variant: STOPPING is never copied.)
initiate_stop_never(cd, td) == td.state

\* (Variant: STOPPING is copied whatever the inbox copy holds.)
initiate_stop_unasked(cd, td) ==
    IF td.state = EVENT_THREAD_STATE_RUNNING THEN EVENT_THREAD_STATE_STOPPING
    ELSE td.state

initiate_stop(cd, td) ==
    IF cd.state = EVENT_THREAD_STATE_STOPPING /\ td.state = EVENT_THREAD_STATE_RUNNING
    THEN EVENT_THREAD_STATE_STOPPING
    ELSE td.state

\* event_loop->clock(&now_ns): a reading not before the last one, or a failure. A
\* behaviour whose limit.clock is 0 is one in which no time passes.
ClockReadings ==
    IF limit.clock = 0 THEN {[ok |-> TRUE, now |-> 0]}
    ELSE {[ok |-> TRUE, now |-> n] : n \in clock .. limit.clock}
             \cup {[ok |-> FALSE, now |-> clock]}

\* now_ns after the reading of line 779: 0 when the clock failed.
NowOrZero(reading) == IF reading.ok THEN reading.now ELSE 0

\* s_process_cross_thread_data, inside the critical section: the flag is cleared and the
\* inbox is swapped out.
\* (Variant: the flag is left as it is.)
TakeInboxKeepFlag(cd) == [cd EXCEPT !.tasks_to_schedule = <<>>]

\* (Variant: the inbox list is left as it is.)
TakeInboxKeepTasks(cd) == [cd EXCEPT !.thread_signaled = FALSE]

TakeInbox(cd) == [cd EXCEPT !.thread_signaled = FALSE, !.tasks_to_schedule = <<>>]

\* The rest of an iteration after the callbacks: s_process_cross_thread_data when the
\* pipe was signalled or kevent() failed, then aws_task_scheduler_run_all takes the
\* tasks to run.
Drain ==
    /\ etpc = "drain"
    /\ IF loop.should_process
       THEN /\ cross_thread_data' = TakeInbox(cross_thread_data)
            /\ thread_data' = [thread_data EXCEPT
                                  !.state = initiate_stop(cross_thread_data, thread_data)]
       ELSE UNCHANGED <<cross_thread_data, thread_data>>
    /\ signal_written' = (signal_written /\ ~loop.should_process)
    /\ \E reading \in ClockReadings :
          /\ clock' = reading.now
          /\ loop' = [loop EXCEPT !.now_ns = NowOrZero(reading)]
          /\ scheduler' = aws_task_scheduler_run_all_begin(
                              IF loop.should_process
                              THEN s_process_tasks_to_schedule(
                                       scheduler, cross_thread_data.tasks_to_schedule)
                              ELSE scheduler,
                              NowOrZero(reading))
    /\ etpc' = "run"
    /\ UNCHANGED <<pipe, kq, pc, tasks, invoked, handle_data, additional_data, iter,
                   stopped, runs, joined, limit>>
    /\ result' = NoResult

\* aws_task_scheduler_run_all: the next task is run with RUN_READY.
RunTask ==
    /\ etpc = "run"
    /\ scheduler.running_list # <<>>
    /\ scheduler' = [scheduler EXCEPT !.running_list = Tail(@)]
    /\ \E body \in BOOLEAN :
          /\ TaskFn(Head(scheduler.running_list), AWS_TASK_STATUS_RUN_READY, ET, body)
          /\ etpc' = IF body THEN "in_task_fn" ELSE "run"
    /\ UNCHANGED <<cross_thread_data, pipe, loop, pc, tasks, additional_data,
                   iter, stopped, runs, joined, limit, clock, signal_written>>
    /\ result' = NoResult

\* A callback entered from a task returns.
TaskFnReturn ==
    /\ etpc = "in_task_fn"
    /\ etpc' = "run"
    /\ UNCHANGED <<cross_thread_data, thread_data, scheduler, pipe, kq, loop, pc, tasks,
                   invoked, handle_data, additional_data, iter, stopped, runs, joined,
                   limit, clock, signal_written>>
    /\ result' = NoResult

\* The timeout for the next kevent() call: the default when the clock fails or the
\* scheduler has no tasks, else the time left until the next task is to run.
NextTimeout(sch, reading) ==
    IF ~reading.ok \/ ~aws_task_scheduler_has_tasks(sch) THEN DEFAULT_TIMEOUT_SEC
    ELSE IF NextRunTime(sch) > reading.now THEN NextRunTime(sch) - reading.now
    ELSE 0

\* The end of an iteration, with the second reading of the clock, and the test of the
\* while loop.
EndIteration ==
    /\ etpc = "run"
    /\ scheduler.running_list = <<>>
    /\ etpc' = IF thread_data.state = EVENT_THREAD_STATE_RUNNING THEN "wait" ELSE "exited"
    /\ \E reading \in ClockReadings :
          /\ clock' = reading.now
          /\ loop' = [should_process |-> FALSE, io_handle_events |-> <<>>, now_ns |-> 0,
                      timeout |-> NextTimeout(scheduler, reading),
                      kevents |-> <<>>]
    /\ UNCHANGED <<cross_thread_data, thread_data, scheduler, pipe, kq, pc, tasks, invoked,
                   handle_data, additional_data, iter, stopped, runs, joined, limit,
                   signal_written>>
    /\ result' = NoResult

\* The event-thread of a loop whose handles are not subscribed, and of any loop.
EventThreadNoIo ==
    \/ ThreadStart
    \/ WaitFails
    \/ Wait
    \/ Drain
    \/ RunTask
    \/ TaskFnReturn
    \/ EndIteration

EventThread ==
    \/ EventThreadNoIo
    \/ InvokeOnEvent
    \/ OnEventReturn

----------------------------------------------------------------------------
\* s_destroy. It begins with s_stop, called when every other caller is quiet ...
s_destroy(a) ==
    /\ a \in limit.callers
    /\ \A b \in App : pc[b] = "idle"
    /\ LET signal == s_stop_signal_thread(cross_thread_data)
           effective == cross_thread_data.state = EVENT_THREAD_STATE_RUNNING
       IN /\ cross_thread_data' = s_stop_critical_section(cross_thread_data)
          /\ pc' = [pc EXCEPT ![a] = IF signal THEN "d_stop_write" ELSE "d_join"]
          /\ stopped' = IF ~effective THEN stopped
                        ELSE [by |-> a, wakes |-> 0, signal_wakes |-> 0,
                              returned |-> IF signal THEN "pending" ELSE "coalesced"]
    /\ UNCHANGED <<thread_data, scheduler, pipe, kq, etpc, loop, tasks, invoked,
                   handle_data, additional_data, iter, runs, joined, limit, clock, signal_written>>
    /\ result' = NoResult

DestroyStopWrite(a) ==
    /\ pc[a] = "d_stop_write"
    /\ pipe' = signal_cross_thread_data_changed(pipe)
    /\ pc' = [pc EXCEPT ![a] = "d_join"]
    /\ stopped' = [stopped EXCEPT !.returned = "signalled"]
    /\ UNCHANGED <<cross_thread_data, thread_data, scheduler, kq, etpc, loop, tasks,
                   invoked, handle_data, additional_data, iter, runs, joined, limit, clock>>
    /\ signal_written' = TRUE
    /\ result' = NoResult

\* ... then s_wait_for_stop_completion; when it fails s_destroy returns at once ...
DestroyJoin(a) ==
    /\ pc[a] = "d_join"
    /\ \/ /\ JoinAndReset
          /\ pc' = [pc EXCEPT ![a] = "d_sched"]
       \/ /\ JoinFails
          /\ pc' = [pc EXCEPT ![a] = "d_failed"]
    /\ UNCHANGED <<scheduler, pipe, kq, loop, tasks, invoked, handle_data,
                   additional_data, iter, runs, limit, clock, signal_written>>
    /\ result' = NoResult

\* ... then aws_task_scheduler_clean_up: run_all with CANCELED for as long as the
\* scheduler has tasks ...
DestroyCancelScheduled(a) ==
    /\ pc[a] = "d_sched"
    /\ aws_task_scheduler_has_tasks(scheduler)
    /\ LET sch == IF scheduler.running_list = <<>>
                  THEN aws_task_scheduler_clean_up_begin(scheduler)
                  ELSE scheduler
       IN /\ scheduler' = [sch EXCEPT !.running_list = Tail(@)]
          /\ \E body \in BOOLEAN :
                /\ TaskFn(Head(sch.running_list), AWS_TASK_STATUS_CANCELED, a, body)
                /\ pc' = [pc EXCEPT ![a] = IF body THEN "d_sched_fn" ELSE "d_sched"]
    /\ UNCHANGED <<cross_thread_data, pipe, etpc, loop, tasks, additional_data,
                   iter, stopped, runs, joined, limit, clock, signal_written>>
    /\ result' = NoResult

\* (Variant: the inbox is emptied while the scheduler still has tasks.)
DestroySchedulerSkipped(a) ==
    /\ pc[a] = "d_sched"
    /\ pc' = [pc EXCEPT ![a] = "d_inbox"]
    /\ UNCHANGED <<cross_thread_data, thread_data, scheduler, pipe, kq, etpc, loop,
                   tasks, invoked, handle_data, additional_data, iter, stopped,
                   runs, joined, limit, clock, signal_written>>
    /\ result' = NoResult

DestroySchedulerDone(a) ==
    /\ pc[a] = "d_sched"
    /\ ~aws_task_scheduler_has_tasks(scheduler)
    /\ pc' = [pc EXCEPT ![a] = "d_inbox"]
    /\ UNCHANGED <<cross_thread_data, thread_data, scheduler, pipe, kq, etpc, loop,
                   tasks, invoked, handle_data, additional_data, iter, stopped,
                   runs, joined, limit, clock, signal_written>>
    /\ result' = NoResult

\* ... then the tasks left in tasks_to_schedule are popped and called with CANCELED ...
DestroyCancelPending(a) ==
    /\ pc[a] = "d_inbox"
    /\ cross_thread_data.tasks_to_schedule # <<>>
    /\ cross_thread_data' = [cross_thread_data EXCEPT !.tasks_to_schedule = Tail(@)]
    /\ \E body \in BOOLEAN :
          /\ TaskFn(Head(cross_thread_data.tasks_to_schedule), AWS_TASK_STATUS_CANCELED,
                    a, body)
          /\ pc' = [pc EXCEPT ![a] = IF body THEN "d_inbox_fn" ELSE "d_inbox"]
    /\ UNCHANGED <<scheduler, pipe, etpc, loop, tasks, additional_data, iter,
                   stopped, runs, joined, limit, clock, signal_written>>
    /\ result' = NoResult

\* A callback called with CANCELED returns.
DestroyFnReturn(a) ==
    /\ pc[a] \in {"d_sched_fn", "d_inbox_fn"}
    /\ pc' = [pc EXCEPT ![a] = IF pc[a] = "d_sched_fn" THEN "d_sched" ELSE "d_inbox"]
    /\ UNCHANGED <<cross_thread_data, thread_data, scheduler, pipe, kq, etpc, loop,
                   tasks, invoked, handle_data, additional_data, iter, stopped,
                   runs, joined, limit, clock, signal_written>>
    /\ result' = NoResult

\* ... and the loop is released.
\* (Variant: the inbox is not emptied first.)
DestroyFinishEarly(a) ==
    /\ pc[a] = "d_inbox"
    /\ pc' = [pc EXCEPT ![a] = "destroyed"]
    /\ UNCHANGED <<cross_thread_data, thread_data, scheduler, pipe, kq, etpc, loop,
                   tasks, invoked, handle_data, additional_data, iter, stopped,
                   runs, joined, limit, clock, signal_written>>
    /\ result' = NoResult

DestroyFinish(a) ==
    /\ pc[a] = "d_inbox"
    /\ cross_thread_data.tasks_to_schedule = <<>>
    /\ pc' = [pc EXCEPT ![a] = "destroyed"]
    /\ UNCHANGED <<cross_thread_data, thread_data, scheduler, pipe, kq, etpc, loop,
                   tasks, invoked, handle_data, additional_data, iter, stopped,
                   runs, joined, limit, clock, signal_written>>
    /\ result' = NoResult

Destroy(a) ==
    \/ s_destroy(a)
    \/ DestroyStopWrite(a)
    \/ DestroyJoin(a)
    \/ DestroyCancelScheduled(a)
    \/ DestroySchedulerDone(a)
    \/ DestroyCancelPending(a)
    \/ DestroyFnReturn(a)
    \/ DestroyFinish(a)

----------------------------------------------------------------------------
\* run, stop, wait_for_stop_completion and schedule_task_now, from any thread.
Lifecycle ==
    \/ \E a \in App :
          \/ s_run(a)
          \/ s_wait_for_stop_completion(a)
          \/ SignalWrite(a)
    \/ \E c \in App \cup {ET} :
          \/ s_stop(c)
          \/ s_schedule_task_now(c)

\* A loop that is started and given tasks, and is not stopped.
Running ==
    \/ \E a \in App :
          \/ s_run(a)
          \/ SignalWrite(a)
    \/ \E c \in App \cup {ET} : s_schedule_task_now(c)

\* subscribe_to_io_events and unsubscribe_from_io_events, from any thread.
Subscriptions ==
    \/ \E a \in App : SubscribeWrite(a)
    \/ \E c \in App \cup {ET} :
          \/ \E h \in Handles, events \in EventMasks : s_subscribe_to_io_events(c, h, events)
          \/ \E h \in Handles : s_unsubscribe_from_io_events(c, h)

Next ==
    \/ Lifecycle
    \/ Subscriptions
    \/ \E a \in App : Destroy(a)
    \/ EventThread

Spec == Init /\ [][Next]_vars

----------------------------------------------------------------------------
\* The lifecycle and the hand-off of tasks, on a loop without subscriptions.
InitLifecycle ==
    /\ Constructed
    /\ limit = [tasks |-> LifecycleTasks, runs |-> LifecycleRuns, subs |-> 0,
                results |-> TRUE, callers |-> App, clock |-> 0,
                kevents |-> FALSE]

NextLifecycle == Lifecycle \/ EventThreadNoIo

SpecLifecycle == InitLifecycle /\ [][NextLifecycle]_vars

\* The event-thread keeps running while it exists, and a caller that has left the
\* critical section goes on to write the pipe.
InitFair ==
    /\ Constructed
    /\ limit = [tasks |-> FairTasks, runs |-> FairRuns, subs |-> 0,
                results |-> FALSE, callers |-> App, clock |-> 0,
                kevents |-> FALSE]

FairLifecycle ==
    /\ InitFair
    /\ [][NextLifecycle]_vars
    /\ WF_vars(EventThreadNoIo)
    /\ \A a \in App : WF_vars(SignalWrite(a))

\* Tasks and stops from two threads and from callbacks, under the same fairness.
InitWake ==
    /\ Constructed
    /\ limit = [tasks |-> WakeTasks, runs |-> WakeRuns, subs |-> 0,
                results |-> FALSE, callers |-> App, clock |-> 0,
                kevents |-> FALSE]

NextWake ==
    \/ Running
    \/ \E c \in App \cup {ET} : s_stop(c)
    \/ EventThreadNoIo

FairWake ==
    /\ InitWake
    /\ [][NextWake]_vars
    /\ WF_vars(EventThreadNoIo)
    /\ \A a \in App : WF_vars(SignalWrite(a))

\* A loop that is run, stopped, joined and run again, under the same fairness.
InitRerun ==
    /\ Constructed
    /\ limit = [tasks |-> RerunTasks, runs |-> RerunRuns, subs |-> 0,
                results |-> FALSE, callers |-> App, clock |-> 0,
                kevents |-> FALSE]

FairRerun ==
    /\ InitRerun
    /\ [][NextLifecycle]_vars
    /\ WF_vars(EventThreadNoIo)
    /\ \A a \in App : WF_vars(SignalWrite(a))

\* Tasks from every thread, up to the destruction of the loop.
InitQueue ==
    /\ Constructed
    /\ limit = [tasks |-> QueueTasks, runs |-> QueueRuns, subs |-> 0,
                results |-> FALSE, callers |-> {"A"}, clock |-> 0,
                kevents |-> FALSE]

NextQueue == Lifecycle \/ EventThreadNoIo \/ \E a \in App : Destroy(a)

SpecQueue == InitQueue /\ [][NextQueue]_vars

\* Subscriptions made by one thread of the application and by callbacks.
InitOrder ==
    /\ Constructed
    /\ limit = [tasks |-> OrderTasks, runs |-> OrderRuns, subs |-> OrderSubs,
                results |-> FALSE, callers |-> {"A"}, clock |-> 0,
                kevents |-> FALSE]

NextIo == Running \/ Subscriptions \/ EventThread

SpecOrder == InitOrder /\ [][NextIo]_vars

\* The same callers, who also destroy the loop.
NextLeak == NextIo \/ \E a \in App : Destroy(a)

SpecLeak == InitOrder /\ [][NextLeak]_vars

InitIo ==
    /\ Constructed
    /\ limit = [tasks |-> IoTasks, runs |-> IoRuns, subs |-> IoSubs,
                results |-> FALSE, callers |-> {"A"}, clock |-> 0,
                kevents |-> FALSE]

SpecIo == InitIo /\ [][NextIo]_vars

\* One subscription, with the kevents of each batch kept until the iteration ends.
InitFlags ==
    /\ Constructed
    /\ limit = [tasks |-> FlagsTasks, runs |-> FlagsRuns, subs |-> FlagsSubs,
                results |-> FALSE, callers |-> {"A"}, clock |-> 0,
                kevents |-> TRUE]

SpecFlags == InitFlags /\ [][NextIo]_vars

\* Timed tasks on a loop whose clock advances and fails.
InitTimed ==
    /\ Constructed
    /\ limit = [tasks |-> TimedTasks, runs |-> TimedRuns, subs |-> 0,
                results |-> FALSE, callers |-> {"A"}, clock |-> MaxClock,
                kevents |-> FALSE]

NextTimed ==
    \/ Running
    \/ \E c \in App \cup {ET} : s_schedule_task_future(c)
    \/ EventThreadNoIo

SpecTimed == InitTimed /\ [][NextTimed]_vars

----------------------------------------------------------------------------
Invoked(t) == invoked[t] # <<>>

RunReady(t) == Invoked(t) /\ invoked[t][1].status = AWS_TASK_STATUS_RUN_READY

Canceled(t) == Invoked(t) /\ invoked[t][1].status = AWS_TASK_STATUS_CANCELED

\* C1: the tasks that one thread hands to schedule_task_now are invoked in the order in
\* which the thread issued them: a task is never invoked while an earlier task of the
\* same thread has not been invoked, on the direct path and through the inbox.
C1_IssueOrder ==
    \A t1, t2 \in DOMAIN tasks :
        (t1 < t2 /\ tasks[t1].owner = tasks[t2].owner /\ Invoked(t2)) => Invoked(t1)

\* Two tasks of a thread of the application and a task of the event-thread that were
\* run, the two after the loop drained its inbox.
C1_Witness ==
    \E t1, t2, t3 \in DOMAIN tasks :
        /\ t1 < t2
        /\ tasks[t1].owner \in App /\ tasks[t2].owner = tasks[t1].owner
        /\ tasks[t3].owner = ET
        /\ RunReady(t1) /\ RunReady(t2) /\ RunReady(t3)

\* C2 (as stated): the unsubscribe task of a handle_data is never invoked before its
\* subscribe task; unsubscribe is only called after subscribe has returned.
C2_SubscribeTaskFirst ==
    \A u \in DOMAIN tasks :
        (tasks[u].kind = "unsub" /\ Invoked(u)) =>
            \E t \in DOMAIN tasks :
                tasks[t].kind = "sub" /\ tasks[t].rec = tasks[u].rec /\ Invoked(t)

AllInvokedOnce ==
    \A t \in DOMAIN tasks :
        /\ Len(invoked[t]) = 1
        /\ invoked[t][1].by \in App => Canceled(t)
        /\ invoked[t][1].by = ET => RunReady(t)

C4_StopLeadsToExit ==
    (cross_thread_data.state = EVENT_THREAD_STATE_STOPPING)
        ~> (etpc = "exited" /\ thread_data.state = EVENT_THREAD_STATE_STOPPING)

\* The event-thread has left the loop after a stop it called itself from a callback.
C4_Witness ==
    /\ etpc = "exited"
    /\ thread_data.state = EVENT_THREAD_STATE_STOPPING
    /\ stopped.by = ET

\* C5 (as stated): after a stop has returned, kevent() returns at most once more.
C5_OneWake == stopped.wakes <= 1

\* C5 (amended): after a stop that wrote the pipe itself has returned, kevent() returns
\* at most once more; after any stop has returned, kevent() returns at most once with
\* the signal pipe in the batch or with a failure.
C5_OneSignalledWake ==
    /\ stopped.returned = "signalled" => stopped.wakes <= 1
    /\ stopped.signal_wakes <= 1

\* The event-thread has left the loop on the one wake after a stop that wrote the pipe.
C5_Witness ==
    /\ stopped.returned = "signalled"
    /\ stopped.by \in App
    /\ stopped.wakes = 1
    /\ etpc = "exited"

RunReturned(val) == result.op = "run" /\ result.val = val

\* C6 (as stated): when run has returned success, neither state copy is READY_TO_RUN.
C6_BothCopiesWritten ==
    RunReturned(AWS_OP_SUCCESS) =>
        /\ cross_thread_data.state # EVENT_THREAD_STATE_READY_TO_RUN
        /\ thread_data.state # EVENT_THREAD_STATE_READY_TO_RUN

\* C6 (amended): run writes the inbox copy only: while the thread exists the inbox copy
\* is not READY_TO_RUN, and the thread-private copy is READY_TO_RUN exactly until the
\* event-thread has executed its first statement.
C6_InboxCopyWritten ==
    /\ RunReturned(AWS_OP_SUCCESS) =>
           cross_thread_data.state = EVENT_THREAD_STATE_RUNNING
    /\ etpc # "none" => cross_thread_data.state # EVENT_THREAD_STATE_READY_TO_RUN
    /\ thread_data.state = EVENT_THREAD_STATE_READY_TO_RUN <=> etpc \in {"none", "start"}

\* run has returned success and the event-thread has entered its main loop.
C6_Witness ==
    /\ etpc = "wait"
    /\ runs = 1
    /\ cross_thread_data.state = EVENT_THREAD_STATE_RUNNING
    /\ thread_data.state = EVENT_THREAD_STATE_RUNNING

\* C7: a run whose thread launch fails returns an error, leaves both state copies
\* READY_TO_RUN, leaves tasks_to_schedule and thread_signaled as they were, and leaves
\* the asserts of the next run true.
C7_FailedLaunch ==
    [][(runs' = runs + 1 /\ etpc' = "none") =>
          /\ result' = [op |-> "run", val |-> AWS_OP_ERR]
          /\ cross_thread_data'.state = EVENT_THREAD_STATE_READY_TO_RUN
          /\ thread_data'.state = EVENT_THREAD_STATE_READY_TO_RUN
          /\ cross_thread_data'.tasks_to_schedule = cross_thread_data.tasks_to_schedule
          /\ cross_thread_data'.thread_signaled = cross_thread_data.thread_signaled
          /\ pipe' = pipe]_vars

\* A launch has failed while tasks were waiting in the inbox, and a later run has
\* launched the thread.
C7_Witness ==
    /\ runs = 2
    /\ RunReturned(AWS_OP_SUCCESS)
    /\ joined = 0
    /\ cross_thread_data.tasks_to_schedule # <<>>

\* C8: a stop on a loop that is not RUNNING changes nothing and writes nothing to the
\* pipe, a stop on a RUNNING loop makes it STOPPING, and stop returns success.
C8_StopFrame ==
    [][/\ \A c \in App \cup {ET} :
             s_stop(c) =>
                 IF cross_thread_data.state = EVENT_THREAD_STATE_RUNNING
                 THEN cross_thread_data'.state = EVENT_THREAD_STATE_STOPPING
                 ELSE /\ cross_thread_data' = cross_thread_data
                      /\ pipe' = pipe
                      /\ pc' = pc
       /\ result'.op = "stop" => result'.val = AWS_OP_SUCCESS]_vars

\* stop has returned on a loop that was STOPPING already, with tasks in the inbox.
C8_Witness ==
    /\ result.op = "stop"
    /\ stopped.returned \in {"signalled", "coalesced"}
    /\ stopped.by \in App
    /\ pc = [a \in App |-> "idle"]
    /\ cross_thread_data.state = EVENT_THREAD_STATE_STOPPING
    /\ cross_thread_data.tasks_to_schedule # <<>>

\* C9: when wait_for_stop_completion returns success, no event-thread is left and both
\* state copies are READY_TO_RUN, which is what run asserts.
C9_ReadyAfterJoin ==
    (result.op = "wait_for_stop_completion" /\ result.val = AWS_OP_SUCCESS) =>
        /\ etpc = "none"
        /\ cross_thread_data.state = EVENT_THREAD_STATE_READY_TO_RUN
        /\ thread_data.state = EVENT_THREAD_STATE_READY_TO_RUN

\* The second cycle of run, stop and wait_for_stop_completion has ended.
C9_Witness ==
    /\ result.op = "wait_for_stop_completion"
    /\ joined = 2

AfterCallbacks == etpc \in {"drain", "run", "in_task_fn", "wait", "exited"}

\* C10: in one iteration a live handle_data gets at most one readiness callback, whose
\* flags are the union of the translated flags of its kevents of the batch; a
\* handle_data with such flags gets the callback; and events_this_loop is empty after
\* the callbacks.
C10_OneCallback ==
    \A r \in DOMAIN iter :
        handle_data[r].alive =>
        /\ Len(iter[r].delivered) <= 1
        /\ iter[r].delivered # <<>> => iter[r].delivered[1] = iter[r].expected
        /\ AfterCallbacks =>
              /\ iter[r].expected # {} => Len(iter[r].delivered) = 1
              /\ handle_data[r].events_this_loop = {}

\* A handle subscribed for both filters got one callback with READABLE and WRITABLE.
C10_Witness ==
    \E r \in DOMAIN iter :
        /\ etpc = "drain"
        /\ handle_data[r].alive
        /\ iter[r].delivered =
               <<{AWS_IO_EVENT_TYPE_READABLE, AWS_IO_EVENT_TYPE_WRITABLE}>>

\* The kernel registrations that carry the handle_data r as udata.
RegistrationsOf(kqv, r) == {k \in DOMAIN kqv : kqv[k] = r}

\* The step in which the task t is invoked.
InvokedNow(t) == Len(invoked'[t]) = Len(invoked[t]) + 1

\* C11: when the subscribe task of a live handle_data has run with RUN_READY and a
\* registration was refused, no registration of the handle_data is left,
\* kevent_added_successfully is false and on_event has been called once with ERROR; when
\* every registration succeeded, all requested filters are registered,
\* kevent_added_successfully is true and no ERROR callback is made. A handle_data whose
\* registration failed gets no readiness callback.
C11_SubscribeOutcome ==
    /\ [][\A t \in DOMAIN tasks :
            (/\ tasks[t].kind = "sub"
             /\ handle_data[tasks[t].rec].alive
             /\ InvokedNow(t)
             /\ invoked'[t][1].status = AWS_TASK_STATUS_RUN_READY) =>
                LET r == tasks[t].rec
                    hd == handle_data'[r]
                    requested == {hd.owner} \X FiltersOf(hd.events_subscribed)
                IN IF hd.failed_filters # {}
                   THEN /\ RegistrationsOf(kq', r) = {}
                        /\ ~hd.kevent_added_successfully
                        /\ hd.error_callbacks = 1
                        /\ etpc' = "in_task_fn"
                   ELSE /\ RegistrationsOf(kq', r) = requested
                        /\ hd.kevent_added_successfully
                        /\ hd.error_callbacks = 0
                        /\ etpc' = "run"]_vars
    /\ [](\A r \in DOMAIN handle_data :
             handle_data[r].alive =>
                /\ handle_data[r].error_callbacks <= 1
                /\ handle_data[r].failed_filters # {} =>
                      /\ RegistrationsOf(kq, r) = {}
                      /\ iter[r].delivered = <<>>
                      /\ handle_data[r].events_this_loop = {})

\* The subscribe task of a handle subscribed for both filters met the refusal of
\* EVFILT_WRITE alone, and the ERROR callback is running.
C11_Witness ==
    \E r \in DOMAIN handle_data :
        /\ handle_data[r].alive
        /\ handle_data[r].events_subscribed =
               {AWS_IO_EVENT_TYPE_READABLE, AWS_IO_EVENT_TYPE_WRITABLE}
        /\ handle_data[r].failed_filters = {EVFILT_WRITE}
        /\ handle_data[r].error_callbacks = 1
        /\ etpc = "in_task_fn"

UnsubscribeTasksOf(r) == {t \in DOMAIN tasks : tasks[t].kind = "unsub" /\ tasks[t].rec = r}

\* C12 (as stated): a handle_data is released once and only by its unsubscribe task, and
\* nothing accesses it after it has been released: not its subscribe task, not the
\* main loop, not a readiness callback.
C12_FreedOnceNeverUsedAfter ==
    \A r \in DOMAIN handle_data :
        /\ \A t \in UnsubscribeTasksOf(r) : Len(invoked[t]) <= 1
        /\ ~handle_data[r].alive <=> \E t \in UnsubscribeTasksOf(r) : Invoked(t)
        /\ ~handle_data[r].used_after_free

\* C13 (as stated): in every state, every registration the kernel holds carries as udata
\* a handle_data that has not been released.
C13_RegistrationsAlive ==
    \A k \in DOMAIN kq : kq[k] # 0 => handle_data[kq[k]].alive

Timed(t) == tasks[t].run_at # 0

\* The step in which the timed task t is invoked with RUN_READY.
TimedRunNow(t) ==
    /\ Timed(t)
    /\ InvokedNow(t)
    /\ invoked'[t][Len(invoked'[t])].status = AWS_TASK_STATUS_RUN_READY

\* A timed task is run in a run_all whose reading of the clock is not before its
\* deadline.
RunAtOrAfterDeadline ==
    \A t \in DOMAIN tasks :
        TimedRunNow(t) => tasks[t].run_at <= loop.now_ns /\ loop.now_ns <= clock

\* The call that submitted t has returned to its caller.
SubmitReturned(t) == tasks[t].owner = ET \/ pc[tasks[t].owner] # "sched_write"

\* C14 (as stated): a timed task is run only in a run_all whose clock reading is not
\* before its deadline; and a run_all that runs a timed task runs before it every timed
\* task with an earlier deadline whose submission has returned, whether or not that
\* task is still in the inbox.
C14_DeadlineOrder ==
    [][/\ RunAtOrAfterDeadline
       /\ (etpc = "drain" /\ etpc' = "run") =>
             \A i \in DOMAIN scheduler'.running_list : \A t1 \in DOMAIN tasks :
                 LET t2 == scheduler'.running_list[i] IN
                 (Timed(t2) /\ Timed(t1) /\ tasks[t1].run_at < tasks[t2].run_at
                  /\ ~Invoked(t1) /\ SubmitReturned(t1))
                     => \E j \in 1 .. i - 1 : scheduler'.running_list[j] = t1]_vars

RECURSIVE SortedByDeadline(_)
SortedByDeadline(list) ==
    \/ Len(list) <= 1
    \/ /\ tasks[list[1]].run_at <= tasks[list[2]].run_at
       /\ SortedByDeadline(Tail(list))

\* C14 (amended): a timed task is run only in a run_all whose clock reading is not
\* before its deadline; a run_all takes every timed task of the scheduler that is due,
\* and runs them in the order of their deadlines. A task that is still in the inbox, or
\* that a callback submits during the run_all, waits for a later run_all.
C14_DueTasksInOrder ==
    [][/\ RunAtOrAfterDeadline
       /\ (etpc = "drain" /\ etpc' = "run") =>
             /\ \A i \in DOMAIN scheduler'.timed_list :
                   tasks[scheduler'.timed_list[i]].run_at > loop'.now_ns
             /\ SortedByDeadline(SelectSeq(scheduler'.running_list, Timed))
       /\ \A t1, t2 \in DOMAIN tasks :
             (TimedRunNow(t2) /\ Timed(t1) /\ tasks[t1].run_at < tasks[t2].run_at
              /\ ~Invoked(t1))
                 => \A i \in DOMAIN scheduler.running_list :
                        scheduler.running_list[i] # t1]_vars

\* Two timed tasks were run in one run_all, the one submitted last first.
C14_Witness ==
    /\ etpc \in {"run", "in_task_fn"}
    /\ \E t1, t2 \in DOMAIN tasks :
          /\ t1 < t2
          /\ Timed(t1) /\ Timed(t2)
          /\ tasks[t2].run_at < tasks[t1].run_at
          /\ tasks[t1].owner = "A" /\ tasks[t2].owner = "A"
          /\ RunReady(t2)
          /\ scheduler.running_list = <<t1>>

\* C17: the timeout handed to kevent() never exceeds DEFAULT_TIMEOUT_SEC, also when the
\* next task of the scheduler is to run later than that.
C17_TimeoutCapped == etpc = "wait" => loop.timeout <= DEFAULT_TIMEOUT_SEC

\* C15: every invocation of a task callback, with RUN_READY or with CANCELED, and
\* every invocation of a readiness callback is made by the event-thread, so that
\* s_is_event_thread is true inside it.
C15_CallbacksOnEventThread ==
    /\ \A t \in DOMAIN invoked : \A i \in DOMAIN invoked[t] :
          s_is_event_thread(invoked[t][i].by)
    /\ etpc \in {"in_on_event", "in_task_fn"} => s_is_event_thread(ET)
    /\ \A a \in App : ~s_is_event_thread(a)

\* Every handle that was subscribed has been unsubscribed since.
AllUnsubscribed == \A h \in Handles : additional_data[h] = 0

\* destroy has reached its assertion on connected_handle_count.
AtDestroyAssertion == \E a \in App : pc[a] = "destroyed"

ZeroAtDestroy ==
    (AtDestroyAssertion /\ AllUnsubscribed) => thread_data.connected_handle_count = 0

\* C16: when every subscribe was followed by an unsubscribe before destroy,
\* connected_handle_count is 0 at the assertion of destroy, whether the subscribe and
\* unsubscribe tasks ran, were in the inbox or were cancelled; and the count is never
\* negative.
C16_HandleCount ==
    /\ ZeroAtDestroy
    /\ thread_data.connected_handle_count >= 0

\* A thread has set thread_signaled, released the mutex and not yet written the pipe.
WritePending ==
    \E a \in App : pc[a] \in {"stop_write", "sched_write", "sub_write", "d_stop_write"}

\* C18 (as stated): in every state where thread_signaled is true, the pipe has been
\* written since the event-thread last cleared the flag.
C18_SignalWritten == cross_thread_data.thread_signaled => signal_written

\* C18 (amended): in every state where thread_signaled is true, the pipe has been
\* written since the event-thread last cleared the flag, or a thread that set the flag
\* has released the mutex and is about to write.
C18_SignalWrittenOrPending ==
    cross_thread_data.thread_signaled => (signal_written \/ WritePending)

\* The flag is set, its write is made, and the event-thread has read the pipe and is
\* about to clear the flag.
C18_Witness ==
    /\ cross_thread_data.thread_signaled
    /\ signal_written
    /\ ~WritePending
    /\ etpc = "drain"
    /\ loop.should_process
    /\ pipe = 0

InInbox(t) ==
    \E i \in DOMAIN cross_thread_data.tasks_to_schedule :
        cross_thread_data.tasks_to_schedule[i] = t

\* The event-thread exists and has not copied STOPPING.
RunningUnstopped ==
    /\ etpc \notin {"none", "exited"}
    /\ thread_data.state # EVENT_THREAD_STATE_STOPPING

\* C19: a task in the inbox of a loop whose event-thread runs and has not observed
\* STOPPING is eventually taken out of the inbox by the event-thread, whichever
\* enqueuers, stops, pipe reads and flag clears are interleaved.
C19_NoLostWake ==
    \A t \in 1 .. WakeTasks : (InInbox(t) /\ RunningUnstopped) ~> ~InInbox(t)

\* One drain has moved the tasks of two threads from the inbox to the scheduler.
C19_Witness ==
    /\ etpc = "run"
    /\ cross_thread_data.tasks_to_schedule = <<>>
    /\ ~cross_thread_data.thread_signaled
    /\ \E t1, t2 \in DOMAIN tasks :
          /\ scheduler.running_list = <<t1, t2>>
          /\ tasks[t1].owner = "A"
          /\ tasks[t2].owner = "B"

\* The inbox state is written by this step.
InboxStateBecomes(state) ==
    /\ cross_thread_data'.state # cross_thread_data.state
    /\ cross_thread_data'.state = state

\* C20: the accesses to the inbox made without the mutex, which are the asserts and
\* the writes of RUNNING and READY_TO_RUN in run and wait_for_stop_completion and the
\* emptying of the inbox in destroy, are made while no event-thread exists: before it
\* is launched, or after it is joined. Every other access is a critical section.
C20_UnlockedWithoutThread ==
    [][/\ runs' # runs => etpc = "none"
       /\ InboxStateBecomes(EVENT_THREAD_STATE_RUNNING) => etpc = "none"
       /\ InboxStateBecomes(EVENT_THREAD_STATE_READY_TO_RUN) => etpc' = "none"
       /\ \A a \in App :
             (pc[a] = "d_inbox" /\ pc'[a] # "d_inbox_fn" /\ pc' # pc) => etpc = "none"
       /\ \A a \in App :
             (pc[a] = "d_inbox"
              /\ cross_thread_data'.tasks_to_schedule
                     # cross_thread_data.tasks_to_schedule) => etpc = "none"]_vars

\* destroy has joined an event-thread that ran, and is emptying the inbox.
C20_Witness ==
    /\ \E a \in App : pc[a] = "d_inbox"
    /\ cross_thread_data.tasks_to_schedule # <<>>
    /\ joined = 1
    /\ etpc = "none"

\* C21: thread_data.state leaves RUNNING only for STOPPING, in the critical section of
\* s_process_cross_thread_data on the event-thread and only when the inbox copy is
\* STOPPING; while an event-thread exists nothing else writes thread_data.state but the
\* event-thread when it starts.
C21_OwnHand ==
    [][/\ (thread_data.state = EVENT_THREAD_STATE_RUNNING
           /\ thread_data'.state # EVENT_THREAD_STATE_RUNNING)
              => /\ thread_data'.state = EVENT_THREAD_STATE_STOPPING
                 /\ etpc = "drain" /\ etpc' = "run"
                 /\ loop.should_process
                 /\ cross_thread_data.state = EVENT_THREAD_STATE_STOPPING
                 /\ pc' = pc
       /\ (thread_data'.state # thread_data.state /\ etpc # "none" /\ etpc' # "none")
              => /\ pc' = pc
                 /\ \/ etpc = "start" /\ etpc' = "wait"
                    \/ etpc = "drain" /\ etpc' = "run"]_vars

\* The event-thread has copied the STOPPING that a thread of the application wrote,
\* while that thread's call of stop has not yet returned.
C21_Witness ==
    /\ etpc = "run"
    /\ thread_data.state = EVENT_THREAD_STATE_STOPPING
    /\ cross_thread_data.state = EVENT_THREAD_STATE_STOPPING
    /\ stopped.by \in App
    /\ pc[stopped.by] = "stop_write"

\* destroy, called by a, cancels in this step a task that it took from the scheduler,
\* or from the inbox.
CancelsScheduled(a) == pc[a] = "d_sched" /\ invoked' # invoked

CancelsPending(a) == pc[a] = "d_inbox" /\ invoked' # invoked

\* C22 (as stated): destroy stops and joins, empties the inbox, and only then cancels
\* the tasks of the scheduler: when it cancels a task of the scheduler, the inbox holds
\* no task that was there when destroy was called.
C22_InboxThenScheduler ==
    [][\A a \in App :
          CancelsScheduled(a) =>
              /\ etpc = "none"
              /\ \A t \in DOMAIN tasks :
                    InInbox(t) => tasks[t].in_fn /\ tasks[t].owner = a]_vars

\* C22 (amended): destroy stops and joins, cancels the tasks of the scheduler until it
\* has none, and only then empties the inbox, which also holds what the cancelled
\* callbacks have submitted meanwhile.
C22_SchedulerThenInbox ==
    [][\A a \in App :
          /\ (pc[a] = "d_join" /\ pc'[a] = "d_sched")
                => cross_thread_data.state # EVENT_THREAD_STATE_RUNNING
          /\ CancelsScheduled(a) => etpc = "none"
          /\ CancelsPending(a) =>
                etpc = "none" /\ ~aws_task_scheduler_has_tasks(scheduler)]_vars

\* destroy has cancelled a task of the scheduler and is about to cancel one that has
\* been in the inbox since before destroy was called.
C22_Witness ==
    /\ \E a \in App : pc[a] = "d_inbox"
    /\ \E t1, t2 \in DOMAIN tasks :
          /\ tasks[t1].owner = ET /\ Canceled(t1)
          /\ InInbox(t2) /\ ~tasks[t2].in_fn

\* The tasks of list that were submitted inside a readiness callback.
FromOnEvent(list) == {list[i] : i \in {j \in DOMAIN list : tasks[list[j]].on_event}}

\* The step in which s_process_cross_thread_data and the start of run_all are taken.
DrainStep == etpc = "drain" /\ etpc' = "run"

\* C23 (as stated): the readiness callbacks of an iteration are over when the inbox is
\* drained, and a task that a readiness callback has submitted in this iteration is not
\* handed to the run_all of this iteration.
C23_NextIteration ==
    [][DrainStep =>
          /\ loop.io_handle_events = <<>>
          /\ FromOnEvent(scheduler.asap_list) \cap FromOnEvent(scheduler'.running_list)
                 = {}]_vars

\* C23 (amended): the readiness callbacks of an iteration are over when the inbox is
\* drained; a task that a readiness callback submits with schedule_task_now goes
\* straight to the scheduler, never to the inbox, is handed to the run_all of the same
\* iteration, and has been invoked when the iteration ends.
C23_SameIteration ==
    /\ [][DrainStep =>
             /\ loop.io_handle_events = <<>>
             /\ FromOnEvent(scheduler.asap_list)
                    \subseteq FromOnEvent(scheduler'.running_list)]_vars
    /\ [](\A t \in DOMAIN tasks :
              tasks[t].on_event =>
                  /\ ~InInbox(t)
                  /\ etpc \in {"wait", "exited"} => Invoked(t))

\* A task submitted by a readiness callback is run in the iteration of that callback.
C23_Witness ==
    /\ etpc = "in_task_fn"
    /\ \E r \in DOMAIN iter : iter[r].delivered # <<>>
    /\ \E t \in DOMAIN tasks : tasks[t].on_event /\ RunReady(t)

\* The flags that C24 gives for a kernel event.
ReferenceFlags(kevent) ==
    IF kevent.error THEN {AWS_IO_EVENT_TYPE_ERROR}
    ELSE {f \in {AWS_IO_EVENT_TYPE_READABLE, AWS_IO_EVENT_TYPE_WRITABLE,
                 AWS_IO_EVENT_TYPE_CLOSED} :
             \/ f = AWS_IO_EVENT_TYPE_READABLE
                /\ kevent.filter = EVFILT_READ /\ kevent.data # 0
             \/ f = AWS_IO_EVENT_TYPE_WRITABLE
                /\ kevent.filter = EVFILT_WRITE /\ kevent.data # 0
             \/ f = AWS_IO_EVENT_TYPE_CLOSED /\ kevent.eof}

\* The kevents of the current batch that carry the handle_data r.
KeventsOf(r) == SelectSeq(loop.kevents, LAMBDA kevent : kevent.udata = r)

\* C24: every kevent of a batch is translated to the flags of the reference;
\* a handle_data all of whose kevents translate to no flag is not put in
\* io_handle_events and gets no callback, and the flags of a callback are flags of the
\* reference for the kevents of its handle_data.
C24_FlagsAsReference ==
    /\ \A i \in DOMAIN loop.kevents :
          s_aws_event_flags_from_kevent(loop.kevents[i]) = ReferenceFlags(loop.kevents[i])
    /\ \A r \in DOMAIN iter :
          (handle_data[r].alive /\ limit.kevents /\ etpc \in {"io_cb", "in_on_event", "drain"})
             => LET reference ==
                        UNION {ReferenceFlags(KeventsOf(r)[i]) : i \in DOMAIN KeventsOf(r)}
                IN /\ reference = {} =>
                         /\ iter[r].delivered = <<>>
                         /\ \A i \in DOMAIN loop.io_handle_events :
                               loop.io_handle_events[i] # r
                   /\ \A i \in DOMAIN iter[r].delivered : iter[r].delivered[i] = reference

\* A batch held a readable event without payload and without end-of-file, and nothing
\* was called; and a batch held one with end-of-file only, and CLOSED was delivered.
C24_Witness ==
    \E r \in DOMAIN iter :
        /\ handle_data[r].alive
        /\ etpc = "drain"
        /\ Len(KeventsOf(r)) = 2
        /\ \E i, j \in DOMAIN KeventsOf(r) :
              /\ ReferenceFlags(KeventsOf(r)[i]) = {}
              /\ ReferenceFlags(KeventsOf(r)[j]) = {AWS_IO_EVENT_TYPE_CLOSED}
        /\ iter[r].delivered = <<{AWS_IO_EVENT_TYPE_CLOSED}>>

\* C25: a task that is in the inbox when a run has launched the event-thread, whether
\* it was submitted before the first run or between a join and the next run, is taken
\* out of the inbox by that thread, whatever thread_signaled and the pipe held when
\* the thread was launched, and with no further call.
C25_DrainedAfterRun ==
    \A t \in 1 .. RerunTasks : (InInbox(t) /\ etpc = "start") ~> ~InInbox(t)

\* The second event-thread of a loop has taken a task from the inbox; nobody has called
\* stop since the first thread was joined.
C25_Witness ==
    /\ etpc = "run"
    /\ joined = 1
    /\ runs = 2
    /\ stopped = NoStop
    /\ \E t \in DOMAIN tasks :
          /\ tasks[t].owner \in App
          /\ scheduler.running_list = <<t>>

TimesIn(list, t) == Cardinality({i \in DOMAIN list : list[i] = t})

InScheduler(t) ==
    TimesIn(scheduler.asap_list \o scheduler.timed_list \o scheduler.running_list, t) > 0

\* A step of stop or of wait_for_stop_completion: the critical section of stop, the
\* reset after the join, or the return of either call.
StopOrWaitStep ==
    \/ InboxStateBecomes(EVENT_THREAD_STATE_STOPPING)
    \/ InboxStateBecomes(EVENT_THREAD_STATE_READY_TO_RUN)
    \/ result'.op \in {"stop", "wait_for_stop_completion"}

\* C26: every submitted task is once in the inbox, or once in the scheduler, or has
\* been invoked once, and never two of these; no step of stop or of
\* wait_for_stop_completion invokes, cancels, moves or drops a task.
C26_Conserved ==
    /\ [](\A t \in DOMAIN tasks :
              TimesIn(cross_thread_data.tasks_to_schedule, t)
              + TimesIn(scheduler.asap_list, t)
              + TimesIn(scheduler.timed_list, t)
              + TimesIn(scheduler.running_list, t)
              + Len(invoked[t]) = 1)
    /\ [][StopOrWaitStep =>
             /\ invoked' = invoked
             /\ tasks' = tasks
             /\ scheduler' = scheduler
             /\ cross_thread_data'.tasks_to_schedule
                    = cross_thread_data.tasks_to_schedule]_vars

\* An event-thread was stopped and joined; the task it ran left another task in the
\* scheduler, which is still there.
C26_Witness ==
    /\ etpc = "none"
    /\ joined = 1
    /\ \E t1, t2 \in DOMAIN tasks :
          /\ RunReady(t1)
          /\ tasks[t2].owner = ET
          /\ InScheduler(t2)

====
